---- MODULE Spec2Model ----
(***************************************************************************)
(* Model of the chat-practice backend: the ConversationManager (a bounded  *)
(* message list living on the Python heap), the /api/chat request          *)
(* validation wrapped by the rate limiter and the error handler, the       *)
(* response streams of accepted requests, the /api/chat/clear endpoint,    *)
(* and the request threads that share the ConversationManager.             *)
(*                                                                         *)
(* Python objects are modelled with their identity: a list is an entry of  *)
(* `lists`, a message dictionary an entry of `dicts`, and a reference is   *)
(* the index of the entry.  Strings are run-length encoded: a string is a  *)
(* sequence of runs <<code point, count>> with count >= 1 and adjacent     *)
(* runs of different code points, so that a text of 10001 characters is a  *)
(* value TLC can enumerate.                                                *)
(***************************************************************************)
EXTENDS Integers, Sequences, FiniteSets, TLC

VARIABLES
    max_context_messages, \* ConversationManager.max_context_messages
    messages,             \* ConversationManager.messages: reference to a list
    lists,                \* heap of list objects: list id -> sequence of dict ids
    dicts,                \* heap of message dicts: dict id -> [role, content]
    held,                 \* lists returned by get_messages() that a caller holds
    lastOp,               \* the operation that produced the current state
    added,                \* ghost: messages passed to add_message since construction / last clear
    cleared,              \* ghost: clear() has been called
    tampered,             \* ghost: a caller wrote into a dict reached from a returned list
    nAdds,                \* ghost: number of direct add_message calls
    nOps,                 \* ghost: number of direct calls and caller operations
    calls,                \* RateLimiter.calls of the limiter that wraps chat()
    limiter,              \* RateLimiter.max_calls and RateLimiter.period
    admitted,             \* ghost: the times at which the limiter let a chat request
                          \* pass; for direct is_allowed calls, [identifier, time]
    allowed,              \* the value the last is_allowed() call returned
    ident,                \* the identifier of the last is_allowed() call
    nTicks,               \* ghost: number of steps of the clock
    now,                  \* the clock read by time()
    streams,              \* response streams created by chat(), see NewStream
    response,             \* the last HTTP response: [status, code, error]
    input,                \* the request body a validation run is about
    nReqs,                \* ghost: number of chat requests made
    threads               \* request threads inside a ConversationManager call

vars == <<max_context_messages, messages, lists, dicts, held, lastOp,
          added, cleared, tampered, nAdds, nOps,
          calls, limiter, admitted, allowed, ident, nTicks,
          now, streams, response, input, nReqs, threads>>

httpVars == <<calls, limiter, admitted, allowed, ident, nTicks,
              now, streams, response, input, nReqs, threads>>

----------------------------------------------------------------------------
(* Bounds *)

MaxN == 2
MaxOps == 5
MaxRuns == 3
MaxRequests == 11
MaxChats == 2
MaxStreams == 1
MaxEvents == 2
MaxTicks == 2
MaxCalls == 2
MaxPeriod == 2
MaxThreads == 3
MaxExchanges == 2

----------------------------------------------------------------------------
(* Strings *)

Str(cp) == << <<cp, 1>> >>

Roles == {"user", "assistant"}

BufContents == {Str(97), Str(98)}

\* code points of the request texts: NUL, SOH, LF, US, space, 'a', NBSP
Chars == {0, 1, 10, 31, 32, 97, 160}

\* run lengths of the request texts
Counts == {1, 10000}

Runs == Chars \X Counts

Canonical(s) == \A i \in 1..Len(s) - 1 : s[i][1] # s[i + 1][1]

Strings == UNION {{s \in [1..k -> Runs] : Canonical(s)} : k \in 0..MaxRuns}

\* the characters str.strip() removes: those for which str.isspace() holds
\* (below U+0100)
PyWhitespace == {9, 10, 11, 12, 13, 28, 29, 30, 31, 32, 133, 160}

RECURSIVE PyLStrip(_)
PyLStrip(s) ==
    IF s # <<>> /\ Head(s)[1] \in PyWhitespace THEN PyLStrip(Tail(s)) ELSE s

RECURSIVE PyRStrip(_)
PyRStrip(s) ==
    IF s # <<>> /\ s[Len(s)][1] \in PyWhitespace
    THEN PyRStrip(SubSeq(s, 1, Len(s) - 1))
    ELSE s

\* s.strip()
PyStrip(s) == PyRStrip(PyLStrip(s))

\* len(s)
RECURSIVE PyLen(_)
PyLen(s) == IF s = <<>> THEN 0 ELSE Head(s)[2] + PyLen(Tail(s))

\* c in s
PyContains(s, c) == \E i \in 1..Len(s) : s[i][1] = c

----------------------------------------------------------------------------
(* Python list operations *)

Max(a, b) == IF a >= b THEN a ELSE b
Min(a, b) == IF a <= b THEN a ELSE b

\* s[start:] for a Python list s: a negative start counts from the end and
\* is clamped at 0, a non-negative start is clamped at len(s).
PySliceFrom(s, start) ==
    LET n == Len(s)
        lo == IF start < 0 THEN Max(n + start, 0) ELSE Min(start, n)
    IN  SubSeq(s, lo + 1, n)

----------------------------------------------------------------------------
(* ConversationManager, as functions of the heap                            *)
(* m = [messages, lists, dicts, max]                                        *)

Mem == [messages |-> messages, lists |-> lists, dicts |-> dicts,
        max |-> max_context_messages]

\* self.messages = self.messages[-self.max_context_messages:] when too long;
\* the slice is a new list object.
trim_history(m) ==
    IF Len(m.lists[m.messages]) > m.max
    THEN [m EXCEPT !.lists = Append(m.lists, PySliceFrom(m.lists[m.messages], 0 - m.max)),
                   !.messages = Len(m.lists) + 1]
    ELSE m

\* message = {...}; self.messages.append(message); self._trim_history()
add_message(m, role, content) ==
    LET d  == Len(m.dicts) + 1
        m1 == [m EXCEPT !.dicts = Append(m.dicts, [role |-> role, content |-> content]),
                        !.lists[m.messages] = Append(m.lists[m.messages], d)]
    IN  trim_history(m1)

\* mutant: return self.messages
get_messages_alias(m) == [mem |-> m, ret |-> m.messages]

\* return self.messages.copy(): a new list object with the same elements
get_messages(m) ==
    [mem |-> [m EXCEPT !.lists = Append(m.lists, m.lists[m.messages])],
     ret |-> Len(m.lists) + 1]

\* mutant: clear() keeps the list
clear_noop(m) == m

\* self.messages = []
clear(m) ==
    [m EXCEPT !.lists = Append(m.lists, <<>>), !.messages = Len(m.lists) + 1]

\* return len(self.messages)
get_context_size(m) == Len(m.lists[m.messages])

SetMem(m) ==
    /\ messages' = m.messages
    /\ lists' = m.lists
    /\ dicts' = m.dicts
    /\ max_context_messages' = m.max

\* the value of list l as a caller reads it: the dicts it refers to
ViewOf(ls, ds, l) == [i \in 1..Len(ls[l]) |-> ds[ls[l][i]]]

\* what get_messages() returns
View == ViewOf(lists, dicts, messages)

----------------------------------------------------------------------------
(* Request bodies of POST /api/chat *)

NoString == <<>>

Body(ctype, json, type, s) == [ctype |-> ctype, json |-> json, type |-> type, s |-> s]

\* ctype: the Content-Type is JSON or not; json: the body is unparseable, a
\* JSON object, or another JSON value; type: what data['message'] is.
Bodies ==
    {Body("other", "object", "str", Str(97)),
     Body("json", "invalid", "absent", NoString),
     Body("json", "nonobject", "absent", NoString),
     Body("json", "object", "absent", NoString),
     Body("json", "object", "int", NoString),
     Body("json", "object", "list", NoString),
     Body("json", "object", "object", NoString),
     Body("json", "object", "null", NoString)}
    \cup {Body("json", "object", "str", s) : s \in Strings}

NoBody == Body("none", "none", "none", NoString)

----------------------------------------------------------------------------
(* chat(): request validation, chat_routes.py lines 79-131 *)

MIN_MESSAGE_LENGTH == 1
MAX_MESSAGE_LENGTH == 10000

\* set(chr(i) for i in range(32)) - {'\n', '\t', '\r'}
control_chars == (0..31) \ {10, 9, 13}

\* outcomes of the handler body: it raises APIError, raises another
\* exception, or goes on with user_message
APIError(message, code, status_code) ==
    [exc |-> "APIError", error |-> message, code |-> code, status |-> status_code,
     user_message |-> NoString]

Raised(kind) ==
    [exc |-> kind, error |-> kind, code |-> "NONE", status |-> 0,
     user_message |-> NoString]

Valid(user_message) ==
    [exc |-> "none", error |-> "", code |-> "NONE", status |-> 0,
     user_message |-> user_message]

\* mutant: len(user_message) >= MAX_MESSAGE_LENGTH
validate_message_max_exclusive(user_message) ==
    IF user_message = <<>>
    THEN APIError("Message is required and cannot be empty", "MISSING_MESSAGE", 400)
    ELSE IF PyLen(user_message) < MIN_MESSAGE_LENGTH
    THEN APIError("Message must be at least 1 character", "MESSAGE_TOO_SHORT", 400)
    ELSE IF PyLen(user_message) >= MAX_MESSAGE_LENGTH
    THEN APIError("Message must be no more than 10000 characters", "MESSAGE_TOO_LONG", 400)
    ELSE IF PyContains(user_message, 0)
    THEN APIError("Message contains invalid characters (null bytes)", "INVALID_CHARACTERS", 400)
    ELSE IF \E c \in control_chars : PyContains(user_message, c)
    THEN APIError("Message contains invalid control characters", "INVALID_CHARACTERS", 400)
    ELSE Valid(user_message)

\* mutant: only the null byte is looked for
validate_message_nul_only(user_message) ==
    IF user_message = <<>>
    THEN APIError("Message is required and cannot be empty", "MISSING_MESSAGE", 400)
    ELSE IF PyLen(user_message) < MIN_MESSAGE_LENGTH
    THEN APIError("Message must be at least 1 character", "MESSAGE_TOO_SHORT", 400)
    ELSE IF PyLen(user_message) > MAX_MESSAGE_LENGTH
    THEN APIError("Message must be no more than 10000 characters", "MESSAGE_TOO_LONG", 400)
    ELSE IF PyContains(user_message, 0)
    THEN APIError("Message contains invalid characters (null bytes)", "INVALID_CHARACTERS", 400)
    ELSE Valid(user_message)

\* mutant: the character checks come before the length check
validate_message_chars_first(user_message) ==
    IF user_message = <<>>
    THEN APIError("Message is required and cannot be empty", "MISSING_MESSAGE", 400)
    ELSE IF PyContains(user_message, 0)
    THEN APIError("Message contains invalid characters (null bytes)", "INVALID_CHARACTERS", 400)
    ELSE IF \E c \in control_chars : PyContains(user_message, c)
    THEN APIError("Message contains invalid control characters", "INVALID_CHARACTERS", 400)
    ELSE IF PyLen(user_message) < MIN_MESSAGE_LENGTH
    THEN APIError("Message must be at least 1 character", "MESSAGE_TOO_SHORT", 400)
    ELSE IF PyLen(user_message) > MAX_MESSAGE_LENGTH
    THEN APIError("Message must be no more than 10000 characters", "MESSAGE_TOO_LONG", 400)
    ELSE Valid(user_message)

\* the checks on user_message = data.get('message', '').strip()
validate_message(user_message) ==
    IF user_message = <<>>
    THEN APIError("Message is required and cannot be empty", "MISSING_MESSAGE", 400)
    ELSE IF PyLen(user_message) < MIN_MESSAGE_LENGTH
    THEN APIError("Message must be at least 1 character", "MESSAGE_TOO_SHORT", 400)
    ELSE IF PyLen(user_message) > MAX_MESSAGE_LENGTH
    THEN APIError("Message must be no more than 10000 characters", "MESSAGE_TOO_LONG", 400)
    ELSE IF PyContains(user_message, 0)
    THEN APIError("Message contains invalid characters (null bytes)", "INVALID_CHARACTERS", 400)
    ELSE IF \E c \in control_chars : PyContains(user_message, c)
    THEN APIError("Message contains invalid control characters", "INVALID_CHARACTERS", 400)
    ELSE Valid(user_message)

\* mutant: data.get('message', '') without .strip()
validate_request_no_strip(body) ==
    IF body.ctype # "json"
    THEN APIError("Request must be JSON", "INVALID_REQUEST", 400)
    ELSE IF body.json = "invalid"
    THEN Raised("BadRequest")
    ELSE IF body.json # "object"
    THEN Raised("AttributeError")
    ELSE IF body.type = "absent"
    THEN validate_message(<<>>)
    ELSE IF body.type # "str"
    THEN Raised("AttributeError")
    ELSE validate_message(body.s)

\* request.is_json, request.get_json(), data.get('message', '').strip()
validate_request(body) ==
    IF body.ctype # "json"
    THEN APIError("Request must be JSON", "INVALID_REQUEST", 400)
    ELSE IF body.json = "invalid"
    THEN Raised("BadRequest")       \* get_json() raises on a parse failure
    ELSE IF body.json # "object"
    THEN Raised("AttributeError")   \* data.get on a list, str, number or None
    ELSE IF body.type = "absent"
    THEN validate_message(PyStrip(<<>>))
    ELSE IF body.type # "str"
    THEN Raised("AttributeError")   \* .strip() on an int, list, dict or None
    ELSE validate_message(PyStrip(body.s))

\* handle_errors: the response for an exception raised by the handler
handle_errors(outcome) ==
    IF outcome.exc = "APIError"
    THEN [status |-> outcome.status, code |-> outcome.code, error |-> outcome.error]
    ELSE [status |-> 500, code |-> "INTERNAL_ERROR", error |-> "An unexpected error occurred"]

----------------------------------------------------------------------------
(* RateLimiter *)

CHAT_MAX_CALLS == 10
CHAT_PERIOD == 60

History(c, identifier) == IF identifier \in DOMAIN c THEN c[identifier] ELSE <<>>

\* [call_time for call_time in self.calls[identifier] if now - call_time < self.period]
Prune(h, t, period) == SelectSeq(h, LAMBDA call_time : t - call_time < period)

\* mutant: the history is dropped at every call
is_allowed_forgets(c, identifier, t, max_calls, period) ==
    LET kept == <<>>
        ok   == Len(kept) < max_calls
        hist == IF ok THEN Append(kept, t) ELSE kept
    IN  [calls |-> [i \in DOMAIN c \cup {identifier} |->
                        IF i = identifier THEN hist ELSE c[i]],
         allowed |-> ok]

\* mutant: a denied call is recorded too
is_allowed_records_denied(c, identifier, t, max_calls, period) ==
    LET kept == Prune(History(c, identifier), t, period)
        ok   == Len(kept) < max_calls
        hist == Append(kept, t)
    IN  [calls |-> [i \in DOMAIN c \cup {identifier} |->
                        IF i = identifier THEN hist ELSE c[i]],
         allowed |-> ok]

\* mutant: a timestamp exactly period old is kept
is_allowed_keeps_boundary(c, identifier, t, max_calls, period) ==
    LET kept == SelectSeq(History(c, identifier),
                          LAMBDA call_time : t - call_time <= period)
        ok   == Len(kept) < max_calls
        hist == IF ok THEN Append(kept, t) ELSE kept
    IN  [calls |-> [i \in DOMAIN c \cup {identifier} |->
                        IF i = identifier THEN hist ELSE c[i]],
         allowed |-> ok]

\* mutant: len(self.calls[identifier]) <= self.max_calls
is_allowed_one_more(c, identifier, t, max_calls, period) ==
    LET kept == Prune(History(c, identifier), t, period)
        ok   == Len(kept) <= max_calls
        hist == IF ok THEN Append(kept, t) ELSE kept
    IN  [calls |-> [i \in DOMAIN c \cup {identifier} |->
                        IF i = identifier THEN hist ELSE c[i]],
         allowed |-> ok]

\* RateLimiter.is_allowed at time t: the new calls and the answer
is_allowed(c, identifier, t, max_calls, period) ==
    LET kept == Prune(History(c, identifier), t, period)
        ok   == Len(kept) < max_calls
        hist == IF ok THEN Append(kept, t) ELSE kept
    IN  [calls |-> [i \in DOMAIN c \cup {identifier} |->
                        IF i = identifier THEN hist ELSE c[i]],
         allowed |-> ok]

----------------------------------------------------------------------------
(* Texts of the streaming layer: sequences of code points.  PyStr gives the *)
(* run-length encoded value of such a text, the form message contents have. *)

RECURSIVE PyStr(_)
PyStr(cs) ==
    IF cs = <<>> THEN <<>>
    ELSE LET r == PyStr(Tail(cs))
         IN  IF r # <<>> /\ r[1][1] = Head(cs)
             THEN << <<Head(cs), r[1][2] + 1>> >> \o Tail(r)
             ELSE << <<Head(cs), 1>> >> \o r

\* s.startswith(p), s.endswith(p)
StartsWith(s, p) == Len(s) >= Len(p) /\ SubSeq(s, 1, Len(p)) = p
EndsWith(s, p) == Len(s) >= Len(p) /\ SubSeq(s, Len(s) - Len(p) + 1, Len(s)) = p

\* s[lo:hi] for lo >= 0 and hi < 0
PySliceMid(s, lo, hi) ==
    LET n == Len(s)
        a == Min(lo, n)
        b == Max(n + hi, 0)
    IN  SubSeq(s, a + 1, b)

\* "".join(parts)
RECURSIVE PyJoin(_)
PyJoin(parts) == IF parts = <<>> THEN <<>> ELSE Head(parts) \o PyJoin(Tail(parts))

----------------------------------------------------------------------------
(* json.loads, for the JSON texts without \u escapes, fractions and         *)
(* exponents.  A parse result is [ok, pos, t, s, text]: t is the Python     *)
(* type of the value, s the characters of a str, and text the value of the *)
(* key "text" of a dict, as [t, s], with t = "absent" if it has none.       *)

JsonWs == {32, 9, 10, 13}
JsonDigits == 48..57

JsonFail == [ok |-> FALSE, pos |-> 0, t |-> "none", s |-> <<>>,
             text |-> [t |-> "none", s |-> <<>>]]

JsonVal(pos, t, s) == [ok |-> TRUE, pos |-> pos, t |-> t, s |-> s,
                       text |-> [t |-> "none", s |-> <<>>]]

RECURSIVE JsonSkipWs(_, _)
JsonSkipWs(s, i) ==
    IF i <= Len(s) /\ s[i] \in JsonWs THEN JsonSkipWs(s, i + 1) ELSE i

JsonEscape(c) ==
    CASE c = 34 -> 34 [] c = 92 -> 92 [] c = 47 -> 47 [] c = 98 -> 8
      [] c = 102 -> 12 [] c = 110 -> 10 [] c = 114 -> 13 [] c = 116 -> 9
      [] OTHER -> -1

\* the characters of a string literal from position i, after the opening quote
RECURSIVE JsonChars(_, _, _)
JsonChars(s, i, acc) ==
    IF i > Len(s) THEN JsonFail
    ELSE IF s[i] = 34 THEN JsonVal(i + 1, "str", acc)
    ELSE IF s[i] < 32 THEN JsonFail
    ELSE IF s[i] = 92
    THEN IF i + 1 > Len(s) \/ JsonEscape(s[i + 1]) < 0 THEN JsonFail
         ELSE JsonChars(s, i + 2, Append(acc, JsonEscape(s[i + 1])))
    ELSE JsonChars(s, i + 1, Append(acc, s[i]))

RECURSIVE JsonDigitsEnd(_, _)
JsonDigitsEnd(s, i) ==
    IF i <= Len(s) /\ s[i] \in JsonDigits THEN JsonDigitsEnd(s, i + 1) ELSE i

\* '-'? ('0' | [1-9][0-9]*)
JsonNumber(s, i) ==
    LET j == IF s[i] = 45 THEN i + 1 ELSE i
    IN  IF j > Len(s) \/ s[j] \notin JsonDigits THEN JsonFail
        ELSE IF s[j] = 48 THEN JsonVal(j + 1, "int", <<>>)
        ELSE JsonVal(JsonDigitsEnd(s, j), "int", <<>>)

JsonLiteral(s, i, lit, t) ==
    IF i + Len(lit) - 1 <= Len(s) /\ SubSeq(s, i, i + Len(lit) - 1) = lit
    THEN JsonVal(i + Len(lit), t, <<>>)
    ELSE JsonFail

RECURSIVE JsonValue(_, _), JsonElements(_, _), JsonMembers(_, _, _)

\* a value at position i (no leading white space)
JsonValue(s, i) ==
    IF i > Len(s) THEN JsonFail
    ELSE IF s[i] = 34 THEN JsonChars(s, i + 1, <<>>)
    ELSE IF s[i] = 45 \/ s[i] \in JsonDigits THEN JsonNumber(s, i)
    ELSE IF s[i] = 116 THEN JsonLiteral(s, i, <<116, 114, 117, 101>>, "bool")
    ELSE IF s[i] = 102 THEN JsonLiteral(s, i, <<102, 97, 108, 115, 101>>, "bool")
    ELSE IF s[i] = 110 THEN JsonLiteral(s, i, <<110, 117, 108, 108>>, "NoneType")
    ELSE IF s[i] = 91
    THEN LET j == JsonSkipWs(s, i + 1)
         IN  IF j <= Len(s) /\ s[j] = 93 THEN JsonVal(j + 1, "list", <<>>)
             ELSE JsonElements(s, j)
    ELSE IF s[i] = 123
    THEN LET j == JsonSkipWs(s, i + 1)
         IN  IF j <= Len(s) /\ s[j] = 125
             THEN [JsonVal(j + 1, "dict", <<>>) EXCEPT !.text = [t |-> "absent", s |-> <<>>]]
             ELSE JsonMembers(s, j, [t |-> "absent", s |-> <<>>])
    ELSE JsonFail

\* value (',' value)* ']' from position i
JsonElements(s, i) ==
    LET v == JsonValue(s, i)
        j == JsonSkipWs(s, v.pos)
    IN  IF ~v.ok \/ j > Len(s) THEN JsonFail
        ELSE IF s[j] = 93 THEN JsonVal(j + 1, "list", <<>>)
        ELSE IF s[j] = 44 THEN JsonElements(s, JsonSkipWs(s, j + 1))
        ELSE JsonFail

\* string ':' value (',' string ':' value)* '}' from position i; text is
\* the value of the key "text" met so far
JsonMembers(s, i, text) ==
    IF i > Len(s) \/ s[i] # 34 THEN JsonFail
    ELSE LET k == JsonChars(s, i + 1, <<>>)
             c == JsonSkipWs(s, k.pos)
         IN  IF ~k.ok \/ c > Len(s) \/ s[c] # 58 THEN JsonFail
             ELSE LET v  == JsonValue(s, JsonSkipWs(s, c + 1))
                      j  == JsonSkipWs(s, v.pos)
                      tx == IF k.s = <<116, 101, 120, 116>>
                            THEN [t |-> v.t, s |-> v.s] ELSE text
                  IN  IF ~v.ok \/ j > Len(s) THEN JsonFail
                      ELSE IF s[j] = 125
                      THEN [JsonVal(j + 1, "dict", <<>>) EXCEPT !.text = tx]
                      ELSE IF s[j] = 44 THEN JsonMembers(s, JsonSkipWs(s, j + 1), tx)
                      ELSE JsonFail

\* json.loads(s): ok = FALSE stands for JSONDecodeError
JsonLoads(s) ==
    LET v == JsonValue(s, JsonSkipWs(s, 1))
    IN  IF v.ok /\ JsonSkipWs(s, v.pos) = Len(s) + 1 THEN v ELSE JsonFail

----------------------------------------------------------------------------
(* The vendor's streaming events and ChatService.stream_response *)

\* texts of text deltas: 'H\n' and '{"text":"a"}'
Texts == {<<72, 10>>, <<123, 34, 116, 101, 120, 116, 34, 58, 34, 97, 34, 125>>}

\* has_text: hasattr(event.delta, 'text')
Event(type, has_text, text) == [type |-> type, has_text |-> has_text, text |-> text]

Events ==
    {Event("content_block_delta", TRUE, x) : x \in Texts}
        \cup {Event("content_block_delta", FALSE, <<>>),
              Event("content_block_start", FALSE, <<>>),
              Event("message_stop", FALSE, <<>>)}

\* "data: " and "\n\n"
DATA_PREFIX == <<100, 97, 116, 97, 58, 32>>
FRAME_END == <<10, 10>>

\* sse_chunk = f"data: {text_chunk}\n\n"
sse_chunk(text_chunk) == DATA_PREFIX \o text_chunk \o FRAME_END

\* mutant: no hasattr(event.delta, 'text') test
stream_response_any_delta(event) ==
    IF event.type = "content_block_delta"
    THEN [yield |-> <<sse_chunk(event.text)>>, stop |-> FALSE]
    ELSE IF event.type = "message_stop"
    THEN [yield |-> <<>>, stop |-> TRUE]
    ELSE [yield |-> <<>>, stop |-> FALSE]

\* one turn of the loop over the vendor's events: what is yielded, and
\* whether the loop is left
stream_response(event) ==
    IF event.type = "content_block_delta"
    THEN IF event.has_text
         THEN [yield |-> <<sse_chunk(event.text)>>, stop |-> FALSE]
         ELSE [yield |-> <<>>, stop |-> FALSE]
    ELSE IF event.type = "message_stop"
    THEN [yield |-> <<>>, stop |-> TRUE]
    ELSE [yield |-> <<>>, stop |-> FALSE]

NoError == [exc |-> "none", code |-> "NONE", status |-> 0]

\* mutant: an error frame is yielded before the APIError is raised
vendor_failure_error_frame(phase) ==
    [yield |-> <<sse_chunk(<<123, 125>>)>>,
     error |-> IF phase = "open"
               THEN [exc |-> "APIError", code |-> "CLAUDE_API_ERROR", status |-> 502]
               ELSE [exc |-> "APIError", code |-> "STREAMING_ERROR", status |-> 500]]

\* what a failure of the vendor call does in send_message ("open") or in
\* the loop of stream_response ("iterate"): nothing is yielded, an
\* APIError is raised
vendor_failure(phase) ==
    [yield |-> <<>>,
     error |-> IF phase = "open"
               THEN [exc |-> "APIError", code |-> "CLAUDE_API_ERROR", status |-> 502]
               ELSE [exc |-> "APIError", code |-> "STREAMING_ERROR", status |-> 500]]

----------------------------------------------------------------------------
(* The generator generate() of the chat route *)

\* the body of the loop over the relay's chunks, up to the yield: what is
\* appended to assistant_message (parsed.get("text", "")), or the exception
\* that leaves the loop
generate_chunk(chunk) ==
    IF StartsWith(chunk, DATA_PREFIX) /\ EndsWith(chunk, FRAME_END)
    THEN LET parsed == JsonLoads(PySliceMid(chunk, 6, -2))
         IN  IF ~parsed.ok THEN [exc |-> "none", append |-> <<>>]
             ELSE IF parsed.t # "dict" THEN [exc |-> "AttributeError", append |-> <<>>]
             ELSE IF parsed.text.t = "absent"
             THEN [exc |-> "none", append |-> <<[t |-> "str", s |-> <<>>]>>]
             ELSE [exc |-> "none", append |-> <<parsed.text>>]
    ELSE [exc |-> "none", append |-> <<>>]

\* "".join(assistant_message): TypeError unless every item is a str
generate_join(assistant_message) ==
    IF \E k \in 1..Len(assistant_message) : assistant_message[k].t # "str"
    THEN [exc |-> "TypeError", s |-> <<>>]
    ELSE [exc |-> "none",
          s |-> PyJoin([k \in 1..Len(assistant_message) |-> assistant_message[k].s])]

\* mutant: the except clauses add what was collected before re-raising
generate_commit_on_raise(how, assistant_message) ==
    IF how \in {"completed", "raised"}
          /\ generate_join(assistant_message).exc = "none"
    THEN <<PyStr(generate_join(assistant_message).s)>>
    ELSE <<>>

\* mutant: the message is added in the finally clause
generate_commit_on_exit(how, assistant_message) ==
    IF how \in {"completed", "raised", "closed"}
          /\ generate_join(assistant_message).exc = "none"
    THEN <<PyStr(generate_join(assistant_message).s)>>
    ELSE <<>>

\* the messages generate() adds to the conversation when it is left: how is
\* "completed" (the loop over the chunks ended), "raised" or "closed"
generate_commit(how, assistant_message) ==
    IF how = "completed" /\ generate_join(assistant_message).exc = "none"
    THEN <<PyStr(generate_join(assistant_message).s)>>
    ELSE <<>>

\* a response stream: the generator object, the message list the vendor
\* was called with (once called), the vendor events it has received, the
\* frames the relay has yielded, the chunks passed on to the client, and
\* what the client has seen of the response
NewStream(msgs) ==
    [messages |-> msgs, pc |-> "created", called |-> FALSE, request |-> <<>>,
     events |-> <<>>, frames |-> <<>>, sent |-> <<>>, assistant_message |-> <<>>,
     error |-> NoError, wire |-> "pending"]

\* the status and the kind of body the client has got
ClientSees(st) ==
    CASE st.wire = "server_error" -> [status |-> 500, body |-> "server error page"]
      [] st.wire = "aborted" /\ st.sent = <<>> -> [status |-> 0, body |-> "none"]
      [] OTHER -> [status |-> 200, body |-> "event stream"]

\* what the client sees when the generator raises: before the first chunk
\* the server can still answer with its own error page, or the exception
\* reaches the caller; after it the stream is cut
FailWire(st) == IF st.sent = <<>> THEN {"server_error", "aborted"} ELSE {"aborted"}

----------------------------------------------------------------------------
(* Initial state: ConversationManager(max_context_messages = N), no request *)

NoResponse == [status |-> 0, code |-> "NONE", error |-> ""]

InitApp ==
    /\ max_context_messages \in 0..MaxN
    /\ messages = 1
    /\ lists = << <<>> >>
    /\ dicts = <<>>
    /\ held = <<>>
    /\ lastOp = "init"
    /\ added = <<>>
    /\ cleared = FALSE
    /\ tampered = FALSE
    /\ nAdds = 0
    /\ nOps = 0
    /\ calls = <<>>
    /\ admitted = <<>>
    /\ allowed = TRUE
    /\ ident = "default"
    /\ nTicks = 0
    /\ now = 0
    /\ streams = <<>>
    /\ response = NoResponse
    /\ nReqs = 0
    /\ threads = <<>>

\* rate_limit(max_calls=10, period=60) on chat()
ChatLimiter == [max_calls |-> CHAT_MAX_CALLS, period |-> CHAT_PERIOD]

Init == InitApp /\ limiter = ChatLimiter /\ input = NoBody

InitVal == InitApp /\ limiter = ChatLimiter /\ input \in Bodies

----------------------------------------------------------------------------
(* Direct calls on the manager *)

AddMessage(role, content) ==
    /\ nOps < MaxOps
    /\ SetMem(add_message(Mem, role, content))
    /\ added' = Append(added, [role |-> role, content |-> content])
    /\ nAdds' = nAdds + 1
    /\ nOps' = nOps + 1
    /\ lastOp' = "add_message"
    /\ UNCHANGED <<held, cleared, tampered>>
    /\ UNCHANGED httpVars

GetMessages ==
    /\ nOps < MaxOps
    /\ LET r == get_messages(Mem)
       IN  /\ SetMem(r.mem)
           /\ held' = Append(held, r.ret)
    /\ nOps' = nOps + 1
    /\ lastOp' = "get_messages"
    /\ UNCHANGED <<added, cleared, tampered, nAdds>>
    /\ UNCHANGED httpVars

Clear ==
    /\ nOps < MaxOps
    /\ SetMem(clear(Mem))
    /\ added' = <<>>
    /\ cleared' = TRUE
    /\ nOps' = nOps + 1
    /\ lastOp' = "clear"
    /\ UNCHANGED <<held, tampered, nAdds>>
    /\ UNCHANGED httpVars

----------------------------------------------------------------------------
(* What a caller can do with a list returned by get_messages() *)

\* returned.append({'role': 'user', 'content': 'Injected'})
CallerAppend(h) ==
    /\ nOps < MaxOps
    /\ dicts' = Append(dicts, [role |-> "user", content |-> Str(98)])
    /\ lists' = [lists EXCEPT ![held[h]] = Append(@, Len(dicts) + 1)]
    /\ nOps' = nOps + 1
    /\ lastOp' = "caller_append"
    /\ UNCHANGED <<max_context_messages, messages, held, added, cleared, tampered, nAdds>>
    /\ UNCHANGED httpVars

\* returned.pop(0)
CallerRemove(h) ==
    /\ nOps < MaxOps
    /\ Len(lists[held[h]]) > 0
    /\ lists' = [lists EXCEPT ![held[h]] = Tail(@)]
    /\ nOps' = nOps + 1
    /\ lastOp' = "caller_remove"
    /\ UNCHANGED <<max_context_messages, messages, dicts, held, added, cleared,
                   tampered, nAdds>>
    /\ UNCHANGED httpVars

\* returned[i]['content'] = c
CallerSetContent(h, i, c) ==
    /\ nOps < MaxOps
    /\ i \in 1..Len(lists[held[h]])
    /\ dicts' = [dicts EXCEPT ![lists[held[h]][i]].content = c]
    /\ tampered' = TRUE
    /\ nOps' = nOps + 1
    /\ lastOp' = "caller_set_content"
    /\ UNCHANGED <<max_context_messages, messages, lists, held, added, cleared, nAdds>>
    /\ UNCHANGED httpVars

----------------------------------------------------------------------------
(* HTTP endpoints *)

\* POST /api/chat/clear: conversation_manager.clear(), then 200
ClearConversation ==
    /\ nOps < MaxOps
    /\ SetMem(clear(Mem))
    /\ added' = <<>>
    /\ cleared' = TRUE
    /\ nOps' = nOps + 1
    /\ response' = [status |-> 200, code |-> "OK", error |-> ""]
    /\ lastOp' = "clear_conversation"
    /\ UNCHANGED <<threads, held, tampered, nAdds, calls, limiter, admitted, allowed, ident,
                   nTicks, now, streams, input, nReqs>>

\* mutant: the message is added before it is validated
chat_validate_after_add(m, body) ==
    LET out == validate_request(body)
        um  == IF out.exc = "none" THEN out.user_message ELSE <<>>
        r   == get_messages(add_message(m, "user", um))
    IN  [mem |-> r.mem, out |-> out, user |-> <<um>>,
         stream |-> IF out.exc = "none" THEN <<r.ret>> ELSE <<>>]

\* the handler chat() on the manager m: the manager afterwards, the outcome
\* of the validation, the user message added and the list handed to
\* generate().  The generator body does not run here.
chat(m, body) ==
    LET out == validate_request(body)
    IN  IF out.exc # "none"
        THEN [mem |-> m, out |-> out, user |-> <<>>, stream |-> <<>>]
        ELSE LET r == get_messages(add_message(m, "user", out.user_message))
             IN  [mem |-> r.mem, out |-> out, user |-> <<out.user_message>>,
                  stream |-> <<r.ret>>]

\* POST /api/chat: handle_errors(rate_limit(10, 60)(chat))
Chat(body) ==
    /\ nReqs < MaxRequests
    /\ nReqs' = nReqs + 1
    /\ lastOp' = "chat"
    /\ LET lim == is_allowed(calls, "default", now, limiter.max_calls, limiter.period)
           h   == chat(Mem, body)
       IN  /\ calls' = lim.calls
           /\ allowed' = lim.allowed
           /\ ident' = "default"
           /\ admitted' = IF lim.allowed THEN Append(admitted, now) ELSE admitted
           /\ IF ~lim.allowed
              THEN /\ response' = [status |-> 429, code |-> "RATE_LIMIT_EXCEEDED",
                                   error |-> "Rate limit exceeded"]
                   /\ UNCHANGED <<max_context_messages, messages, lists, dicts,
                                  added, streams>>
              ELSE /\ SetMem(h.mem)
                   /\ added' = added \o [k \in 1..Len(h.user) |->
                                            [role |-> "user", content |-> h.user[k]]]
                   /\ streams' = streams \o [k \in 1..Len(h.stream) |->
                                                NewStream(h.stream[k])]
                   /\ response' = IF h.out.exc # "none" THEN handle_errors(h.out)
                                  ELSE [status |-> 200, code |-> "OK", error |-> ""]
    /\ UNCHANGED <<threads, held, cleared, tampered, nAdds, nOps, limiter, nTicks, now, input>>

ChatInput == Chat(input)

----------------------------------------------------------------------------
(* The response stream: the server pulls chunks from generate(), which     *)
(* pulls frames from stream_response(), which pulls events from the vendor *)

\* the loop of generate() has ended: the message is joined and added
generate_end(st) ==
    IF generate_join(st.assistant_message).exc = "none"
    THEN [how |-> "completed", st |-> [st EXCEPT !.pc = "done", !.wire = "complete"]]
    ELSE [how |-> "raised",
          st |-> [st EXCEPT !.pc = "failed",
                            !.error = [exc |-> generate_join(st.assistant_message).exc,
                                       code |-> "NONE", status |-> 0]]]

\* the vendor delivers one event to the relay, whose frame (if any) goes
\* through the loop body of generate()
generate_event(st, event) ==
    LET r   == stream_response(event)
        st1 == [st EXCEPT !.events = Append(@, event), !.frames = @ \o r.yield]
    IN  IF r.yield # <<>>
        THEN LET g == generate_chunk(r.yield[1])
             IN  IF g.exc # "none"
                 THEN [how |-> "raised",
                       st |-> [st1 EXCEPT !.pc = "failed",
                                          !.error = [exc |-> g.exc, code |-> "NONE",
                                                     status |-> 0]]]
                 ELSE [how |-> "yielded",
                       st |-> [st1 EXCEPT !.pc = "yielded",
                                          !.assistant_message = @ \o g.append,
                                          !.sent = Append(@, r.yield[1]),
                                          !.wire = "streaming"]]
        ELSE IF r.stop THEN generate_end(st1)
        ELSE [how |-> "running", st |-> [st1 EXCEPT !.pc = "running"]]

\* the vendor call fails in the given phase
generate_failure(st, phase) ==
    [how |-> "raised",
     st |-> [st EXCEPT !.called = TRUE, !.pc = "failed",
                       !.frames = @ \o vendor_failure(phase).yield,
                       !.sent = @ \o vendor_failure(phase).yield,
                       !.error = vendor_failure(phase).error]]

\* stream i moves on as res says; what generate() commits is added
StreamStep(i, res, op) ==
    LET c == generate_commit(res.how, res.st.assistant_message)
    IN  /\ IF c = <<>>
           THEN UNCHANGED <<max_context_messages, messages, lists, dicts, added>>
           ELSE /\ SetMem(add_message(Mem, "assistant", c[1]))
                /\ added' = Append(added, [role |-> "assistant", content |-> c[1]])
        /\ \E w \in (IF res.how = "raised" THEN FailWire(res.st) ELSE {res.st.wire}) :
               streams' = [streams EXCEPT ![i] = [res.st EXCEPT !.wire = w]]
        /\ lastOp' = op
        /\ UNCHANGED <<threads, held, cleared, tampered, nAdds, nOps, calls, limiter, admitted,
                       allowed, ident, nTicks, now, response, input, nReqs>>

\* chat_service.stream_response(messages, ...): the list the generator
\* holds, read when the vendor is called
VendorRequest(st) == ViewOf(lists, dicts, st.messages)

\* first pull: client.messages.create(...) returns the vendor's stream
VendorOpen(i) ==
    /\ streams[i].pc = "created"
    /\ StreamStep(i, [how |-> "running",
                      st |-> [streams[i] EXCEPT !.pc = "running", !.called = TRUE,
                                                !.request = VendorRequest(streams[i])]],
                  "vendor_open")

\* first pull: client.messages.create(...) raises
VendorOpenFail(i) ==
    /\ streams[i].pc = "created"
    /\ StreamStep(i, generate_failure([streams[i] EXCEPT
                                          !.request = VendorRequest(streams[i])],
                                      "open"),
                  "vendor_open_fail")

VendorEvent(i, event) ==
    /\ streams[i].pc \in {"running", "yielded"}
    /\ Len(streams[i].events) < MaxEvents
    /\ StreamStep(i, generate_event(streams[i], event), "vendor_event")

\* the vendor's stream ends without a message_stop event
VendorEnd(i) ==
    /\ streams[i].pc \in {"running", "yielded"}
    /\ StreamStep(i, generate_end(streams[i]), "vendor_end")

\* the vendor's stream raises while it is iterated
VendorFail(i) ==
    /\ streams[i].pc \in {"running", "yielded"}
    /\ StreamStep(i, generate_failure(streams[i], "iterate"), "vendor_fail")

\* the client goes away: the server closes the generator, which is either
\* not started or suspended at its yield
ClientDisconnect(i) ==
    /\ streams[i].pc \in {"created", "yielded"}
    /\ StreamStep(i, [how |-> "closed",
                      st |-> [streams[i] EXCEPT !.pc = "closed", !.wire = "aborted"]],
                  "client_disconnect")

\* ' a' is accepted as 'a', ' ' is rejected
ChatBodies == {Body("json", "object", "str", <<<<32, 1>>, <<97, 1>>>>),
               Body("json", "object", "str", <<<<32, 1>>>>)}

\* at most MaxChats requests, of which at most MaxStreams are accepted
ChatRequest(body) ==
    /\ nReqs < MaxChats
    /\ Len(streams) + Len(chat(Mem, body).stream) <= MaxStreams
    /\ Chat(body)

NextChat ==
    \/ \E body \in ChatBodies : ChatRequest(body)
    \/ \E i \in 1..Len(streams) : VendorOpen(i)
    \/ \E i \in 1..Len(streams) : VendorOpenFail(i)
    \/ \E i \in 1..Len(streams), event \in Events : VendorEvent(i, event)
    \/ \E i \in 1..Len(streams) : VendorEnd(i)
    \/ \E i \in 1..Len(streams) : VendorFail(i)
    \/ \E i \in 1..Len(streams) : ClientDisconnect(i)

\* chat requests and their response streams, for the largest buffer (the
\* buffers of every size are those of Spec and SpecSession)
InitChat == Init /\ max_context_messages = MaxN

SpecChat == InitChat /\ [][NextChat]_vars

----------------------------------------------------------------------------
(* One chat request and the frames of its reply *)

\* texts of text deltas that are JSON values themselves: '7' and '{"text":7}'
JsonTexts == {<<55>>, <<123, 34, 116, 101, 120, 116, 34, 58, 55, 125>>}

ReplyEvents ==
    Events \cup {Event("content_block_delta", TRUE, x) : x \in JsonTexts}

\* {"message": " a"}
AcceptedBody == Body("json", "object", "str", <<<<32, 1>>, <<97, 1>>>>)

\* the one chat request of the session
ReplyRequest ==
    /\ streams = <<>>
    /\ Chat(AcceptedBody)

\* POST /api/chat/clear, once
ClearOnce ==
    /\ ~cleared
    /\ ClearConversation

NextReply ==
    \/ ReplyRequest
    \/ ClearOnce
    \/ \E i \in 1..Len(streams) : VendorOpen(i)
    \/ \E i \in 1..Len(streams) : VendorOpenFail(i)
    \/ \E i \in 1..Len(streams), event \in ReplyEvents : VendorEvent(i, event)
    \/ \E i \in 1..Len(streams) : VendorEnd(i)
    \/ \E i \in 1..Len(streams) : VendorFail(i)
    \/ \E i \in 1..Len(streams) : ClientDisconnect(i)

\* one accepted chat request, a clear at any moment, every kind of frame
SpecReply == InitChat /\ [][NextReply]_vars

----------------------------------------------------------------------------
(* Several chat requests of one session, their streams pulled in any order *)

\* a text delta '{"text":"a"}', and message_stop
SessionEvents ==
    {Event("content_block_delta", TRUE,
           <<123, 34, 116, 101, 120, 116, 34, 58, 34, 97, 34, 125>>),
     Event("message_stop", FALSE, <<>>)}

\* an accepted chat request, at most MaxExchanges of them
SessionRequest ==
    /\ Len(streams) < MaxExchanges
    /\ Chat(AcceptedBody)

NextSession ==
    \/ SessionRequest
    \/ \E i \in 1..Len(streams) : VendorOpen(i)
    \/ \E i \in 1..Len(streams) : VendorOpenFail(i)
    \/ \E i \in 1..Len(streams), event \in SessionEvents : VendorEvent(i, event)
    \/ \E i \in 1..Len(streams) : VendorEnd(i)
    \/ \E i \in 1..Len(streams) : VendorFail(i)
    \/ \E i \in 1..Len(streams) : ClientDisconnect(i)

SpecSession == Init /\ [][NextSession]_vars

----------------------------------------------------------------------------
(* The clock, and direct calls of RateLimiter.is_allowed *)

\* seconds between two readings of time()
TickSteps == {1, 59}

Tick(d) ==
    /\ nTicks < MaxTicks
    /\ nTicks' = nTicks + 1
    /\ now' = now + d
    /\ lastOp' = "tick"
    /\ UNCHANGED <<threads, max_context_messages, messages, lists, dicts, held, added, cleared,
                   tampered, nAdds, nOps, calls, limiter, admitted, allowed, ident,
                   streams, response, input, nReqs>>

Identifiers == {"default", "other"}

IsAllowed(id) ==
    /\ nOps < MaxOps
    /\ nOps' = nOps + 1
    /\ LET lim == is_allowed(calls, id, now, limiter.max_calls, limiter.period)
       IN  /\ calls' = lim.calls
           /\ allowed' = lim.allowed
           /\ admitted' = IF lim.allowed
                          THEN Append(admitted, [identifier |-> id, time |-> now])
                          ELSE admitted
    /\ ident' = id
    /\ lastOp' = "is_allowed"
    /\ UNCHANGED <<threads, max_context_messages, messages, lists, dicts, held, added, cleared,
                   tampered, nAdds, limiter, nTicks, now, streams, response,
                   input, nReqs>>

\* RateLimiter(max_calls, period)
InitLimiter ==
    /\ InitApp
    /\ input = NoBody
    /\ limiter \in [max_calls : 1..MaxCalls, period : 1..MaxPeriod]

NextLimiter ==
    \/ \E id \in Identifiers : IsAllowed(id)
    \/ \E d \in TickSteps : Tick(d)

\* one RateLimiter, called directly
SpecLimiter == InitLimiter /\ [][NextLimiter]_vars

NextRate ==
    \/ \E body \in ChatBodies : Chat(body)
    \/ \E d \in TickSteps : Tick(d)

\* chat requests over time, their response streams not yet pulled
SpecRate == InitChat /\ [][NextRate]_vars

----------------------------------------------------------------------------

Next ==
    \/ \E role \in Roles, content \in BufContents : AddMessage(role, content)
    \/ GetMessages
    \/ Clear
    \/ ClearConversation
    \/ \E h \in 1..Len(held) : CallerAppend(h)
    \/ \E h \in 1..Len(held) : CallerRemove(h)
    \/ \E h \in 1..Len(held), i \in 1..MaxOps, c \in BufContents :
           CallerSetContent(h, i, c)

\* the ConversationManager and its callers
Spec == Init /\ [][Next]_vars

NextVal == ChatInput

\* one request body, posted repeatedly to a freshly started application
SpecVal == InitVal /\ [][NextVal]_vars

----------------------------------------------------------------------------
(* Request threads: app.run() serves each request on its own thread, and    *)
(* every thread calls the one ConversationManager without a lock.  A call   *)
(* is cut where the interpreter can switch threads: between the load of     *)
(* self.messages and the append, between the append and the length test of  *)
(* _trim_history, between the test and the slice, and between the slice and *)
(* the assignment.  The ghosts of the serial calls (added, cleared, held)   *)
(* are not kept by these steps.                                             *)

\* the message thread t adds: role 'user', a content of its own
ThreadContent(t) == Str(96 + t)

ThreadOps == {"add_message", "get_messages", "clear"}

NewThread(op, msg) ==
    [op |-> op, pc |-> IF op = "add_message" THEN "load" ELSE "call",
     msg |-> msg, ref |-> 0, tmp |-> 0, ret |-> 0]

\* a request thread enters a ConversationManager method; add_message builds
\* its message dict first
ThreadCall(op) ==
    /\ Len(threads) < MaxThreads
    /\ dicts' = IF op = "add_message"
                THEN Append(dicts, [role |-> "user",
                                    content |-> ThreadContent(Len(threads) + 1)])
                ELSE dicts
    /\ threads' = Append(threads,
                         NewThread(op, IF op = "add_message" THEN Len(dicts) + 1 ELSE 0))
    /\ lastOp' = "thread_call"
    /\ UNCHANGED <<max_context_messages, messages, lists, held, added, cleared,
                   tampered, nAdds, nOps, calls, limiter, admitted, allowed, ident,
                   nTicks, now, streams, response, input, nReqs>>

\* the next step of thread t
ThreadStep(t) ==
    LET th == threads[t] IN
    /\ th.pc # "done"
    /\ CASE th.pc = "load" ->
              \* self.messages of self.messages.append(message)
              /\ threads' = [threads EXCEPT ![t].ref = messages, ![t].pc = "append"]
              /\ UNCHANGED <<messages, lists>>
         [] th.pc = "append" ->
              \* .append(message) on the list that was loaded
              /\ lists' = [lists EXCEPT ![th.ref] = Append(lists[th.ref], th.msg)]
              /\ threads' = [threads EXCEPT ![t].pc = "check"]
              /\ UNCHANGED messages
         [] th.pc = "check" ->
              \* if len(self.messages) > self.max_context_messages
              /\ threads' = [threads EXCEPT ![t].pc =
                                IF Len(lists[messages]) > max_context_messages
                                THEN "slice" ELSE "done"]
              /\ UNCHANGED <<messages, lists>>
         [] th.pc = "slice" ->
              \* self.messages[-self.max_context_messages:]
              /\ lists' = Append(lists, PySliceFrom(lists[messages],
                                                    0 - max_context_messages))
              /\ threads' = [threads EXCEPT ![t].tmp = Len(lists) + 1,
                                            ![t].pc = "assign"]
              /\ UNCHANGED messages
         [] th.pc = "assign" ->
              \* self.messages = <the slice>
              /\ messages' = th.tmp
              /\ threads' = [threads EXCEPT ![t].pc = "done"]
              /\ UNCHANGED lists
         [] th.pc = "call" /\ th.op = "get_messages" ->
              \* return self.messages.copy()
              /\ lists' = Append(lists, lists[messages])
              /\ threads' = [threads EXCEPT ![t].ret = Len(lists) + 1,
                                            ![t].pc = "done"]
              /\ UNCHANGED messages
         [] th.pc = "call" /\ th.op = "clear" ->
              \* self.messages = []
              /\ lists' = Append(lists, <<>>)
              /\ messages' = Len(lists) + 1
              /\ threads' = [threads EXCEPT ![t].pc = "done"]
    /\ lastOp' = "thread_step"
    /\ UNCHANGED <<max_context_messages, dicts, held, added, cleared,
                   tampered, nAdds, nOps, calls, limiter, admitted, allowed, ident,
                   nTicks, now, streams, response, input, nReqs>>

NextThreads ==
    \/ \E op \in ThreadOps : ThreadCall(op)
    \/ \E t \in 1..Len(threads) : ThreadStep(t)

SpecThreads == Init /\ [][NextThreads]_vars

----------------------------------------------------------------------------
(* Properties of the ConversationManager (specification Spec) *)

LastN(s, n) == SubSeq(s, Len(s) - n + 1, Len(s))

CallerListOps == {"caller_append", "caller_remove"}

\* C1: with maximum N (N = 0 included) the buffer never holds more than N
\* messages, whatever add_message and clear calls were made.
C1_SizeAtMostMax == get_context_size(Mem) <= max_context_messages

\* C2: after N + k add_message calls on a fresh buffer with maximum N the
\* size is N and the buffer holds the last N messages added, in order, with
\* role and content as they were added.
C2_LastNRetained ==
    (~cleared /\ ~tampered /\ Len(added) >= max_context_messages)
        => /\ get_context_size(Mem) = max_context_messages
           /\ View = LastN(added, max_context_messages)

\* C3: get_messages() returns a new list equal to the buffer: it is not the
\* internal list nor a list returned earlier, the call leaves the buffer as
\* it was, and appending to or removing from a returned list changes neither
\* what get_messages() returns afterwards nor get_context_size().
C3_ReturnedListIndependent ==
    [][/\ lastOp' = "get_messages" =>
            LET r == held'[Len(held')]
            IN  /\ r # messages'
                /\ \A h \in 1..Len(held) : held[h] # r
                /\ ViewOf(lists', dicts', r) = View'
                /\ View' = View
       /\ lastOp' \in CallerListOps =>
            /\ View' = View
            /\ get_context_size(Mem)' = get_context_size(Mem)]_vars

C3_Witness ==
    /\ lastOp \in CallerListOps
    /\ Len(held) = 2
    /\ Len(View) >= 1
    /\ \E h \in 1..Len(held) : ViewOf(lists, dicts, held[h]) # View

\* C4: nothing a caller does with the value returned by get_messages(),
\* its elements included, changes what the buffer holds.
C4_MessagesImmutable ==
    [][lastOp' \in CallerListOps \cup {"caller_set_content"} => View' = View]_vars

Fresh(n) == [messages |-> 1, lists |-> << <<>> >>, dicts |-> <<>>, max |-> n]

RECURSIVE Replay(_, _)
Replay(m, msgs) ==
    IF msgs = <<>> THEN m
    ELSE Replay(add_message(m, Head(msgs).role, Head(msgs).content), Tail(msgs))

FreshView(n, msgs) ==
    LET m == Replay(Fresh(n), msgs) IN ViewOf(m.lists, m.dicts, m.messages)

\* C5: clear() and POST /api/chat/clear (always answered 200) leave the
\* buffer empty whatever it held, with the same maximum; the add_message
\* calls made afterwards give what they give on a fresh buffer.
C5_ClearEmptiesBuffer ==
    /\ [][lastOp' \in {"clear", "clear_conversation"} =>
            /\ get_context_size(Mem)' = 0
            /\ View' = <<>>
            /\ max_context_messages' = max_context_messages
            /\ lastOp' = "clear_conversation" => response'.status = 200]_vars
    /\ []((cleared /\ ~tampered) => View = FreshView(max_context_messages, added))

C5_Witness ==
    /\ cleared
    /\ ~tampered
    /\ lastOp = "add_message"
    /\ nAdds > Len(added)
    /\ Len(added) >= 2

----------------------------------------------------------------------------
(* Properties of the request validation (specification SpecVal) *)

\* the last chat request reached the handler
Handled == lastOp = "chat" /\ response.code # "RATE_LIMIT_EXCEEDED"

IsString == input.ctype = "json" /\ input.json = "object" /\ input.type = "str"

Disallowed == {c \in 0..31 : c \notin {9, 10, 13}}

HasDisallowed(s) == \E c \in Disallowed : PyContains(s, c)

InRange(n) == 1 <= n /\ n <= 10000

\* C6: a message whose trimmed length is in 1..10000 and that has no
\* control character other than \n, \t, \r passes validation: the handler
\* answers 200 with a response stream, and the trimmed text is stored.
C6_ValidAccepted ==
    (Handled /\ IsString /\ InRange(PyLen(PyStrip(input.s))) /\ ~HasDisallowed(input.s))
        => /\ response.status = 200
           /\ Len(streams) >= 1
           /\ added[Len(added)] = [role |-> "user", content |-> PyStrip(input.s)]

C6_Witness ==
    /\ Handled /\ IsString
    /\ response.status = 200
    /\ PyLen(PyStrip(input.s)) = 10000
    /\ PyStrip(input.s) # input.s

\* C7 as stated: a message that contains \x00 or a character of \x01-\x1F
\* other than \n, \t, \r at any position is rejected with 400
\* INVALID_CHARACTERS.
C7_Original ==
    (Handled /\ IsString /\ HasDisallowed(input.s))
        => response.status = 400 /\ response.code = "INVALID_CHARACTERS"

\* C7 as amended: a message whose trimmed text has a length in 1..10000 and
\* contains \x00 or a character of \x01-\x1F other than \n, \t, \r is
\* rejected with 400 INVALID_CHARACTERS.
C7_DisallowedRejected ==
    (Handled /\ IsString /\ InRange(PyLen(PyStrip(input.s)))
             /\ HasDisallowed(PyStrip(input.s)))
        => response.status = 400 /\ response.code = "INVALID_CHARACTERS"

C7_Witness ==
    /\ Handled /\ IsString
    /\ response.code = "INVALID_CHARACTERS"
    /\ PyStrip(input.s)[1][1] = 1
    /\ ~PyContains(input.s, 0)

\* C8: a request whose message is empty, only whitespace or absent from the
\* JSON object is rejected with 400 MISSING_MESSAGE.
C8_MissingMessage ==
    (/\ Handled /\ input.ctype = "json" /\ input.json = "object"
     /\ \/ input.type = "absent"
        \/ /\ input.type = "str"
           /\ \A i \in 1..Len(input.s) : input.s[i][1] \in PyWhitespace)
        => response.status = 400 /\ response.code = "MISSING_MESSAGE"

C8_Witness ==
    /\ Handled /\ IsString
    /\ response.code = "MISSING_MESSAGE"
    /\ Len(input.s) >= 2

\* C9: the checks run in order and the first failing one decides: a message
\* whose trimmed length exceeds 10000 is rejected with 400 MESSAGE_TOO_LONG
\* also when it contains a NUL or another disallowed control character, and
\* within the length bounds the NUL check answers before the control
\* character check.
C9_LengthBeforeCharacters ==
    (Handled /\ IsString) =>
        /\ PyLen(PyStrip(input.s)) > 10000
              => response.status = 400 /\ response.code = "MESSAGE_TOO_LONG"
        /\ (InRange(PyLen(PyStrip(input.s))) /\ PyContains(PyStrip(input.s), 0))
              => response.error = "Message contains invalid characters (null bytes)"

C9_Witness ==
    /\ Handled /\ IsString
    /\ response.code = "MESSAGE_TOO_LONG"
    /\ PyContains(PyStrip(input.s), 0)

\* C10: a body that does not parse as JSON, or a JSON object whose message
\* is an integer, a list, an object or null, is answered with status 400.
C10_MalformedIs400 ==
    (/\ Handled /\ input.ctype = "json"
     /\ \/ input.json = "invalid"
        \/ input.json = "object" /\ input.type \in {"int", "list", "object", "null"})
        => response.status = 400

----------------------------------------------------------------------------
(* Properties of chat requests and response streams (specification SpecChat) *)

StreamIds == 1..Len(streams)

\* the texts of the text deltas among the events, in order
RECURSIVE DeltaTexts(_)
DeltaTexts(events) ==
    IF events = <<>> THEN <<>>
    ELSE IF Head(events).type = "content_block_delta" /\ Head(events).has_text
    THEN <<Head(events).text>> \o DeltaTexts(Tail(events))
    ELSE DeltaTexts(Tail(events))

\* the payload J of a frame 'data: ' + J + '\n\n'
Payload(frame) == PySliceMid(frame, Len(DATA_PREFIX), 0 - Len(FRAME_END))

\* the frame is 'data: ' + J + '\n\n' with J a JSON object that has a
\* string field 'text' and no raw newline
IsTextFrame(frame) ==
    /\ StartsWith(frame, DATA_PREFIX)
    /\ EndsWith(frame, FRAME_END)
    /\ \A k \in 1..Len(Payload(frame)) : Payload(frame)[k] # 10
    /\ JsonLoads(Payload(frame)).ok
    /\ JsonLoads(Payload(frame)).t = "dict"
    /\ JsonLoads(Payload(frame)).text.t = "str"

\* the 'text' fields decoded from the frames, concatenated
DecodedText(frames) ==
    PyJoin([k \in 1..Len(frames) |-> JsonLoads(Payload(frames[k])).text.s])

\* C11: a chat request rejected by validation leaves the buffer as it was,
\* creates no response stream, calls the vendor for no stream and produces
\* no frame.
C11_RejectedNoSideEffect ==
    [][(lastOp' = "chat" /\ response'.status \notin {200, 429})
          => /\ messages' = messages /\ lists' = lists /\ dicts' = dicts
             /\ streams' = streams]_vars

C11_Witness ==
    /\ lastOp = "chat"
    /\ response.status = 400
    /\ View # <<>>
    /\ Len(streams) = 1

\* C12: every frame yielded by stream_response is 'data: ' + J + '\n\n'
\* where J is a JSON object with a string field 'text', without a raw
\* newline.
C12_FramesAreJson ==
    \A i \in StreamIds : \A k \in 1..Len(streams[i].frames) :
        IsTextFrame(streams[i].frames[k])

\* C13: the 'text' fields decoded from the frames of a stream, concatenated
\* in order, are the concatenation of the text deltas the vendor has sent.
C13_RoundTrip ==
    \A i \in StreamIds :
        /\ \A k \in 1..Len(streams[i].frames) : IsTextFrame(streams[i].frames[k])
        /\ DecodedText(streams[i].frames) = PyJoin(DeltaTexts(streams[i].events))

\* C14: from an empty buffer with maximum N >= 2, one accepted request
\* whose vendor stream has run to completion leaves the buffer as
\* [user: the trimmed message, assistant: the whole reply of the vendor].
C14_EndToEnd ==
    (/\ max_context_messages >= 2
     /\ nReqs = 1
     /\ Len(streams) = 1
     /\ streams[1].pc = "done")
        => View = <<[role |-> "user", content |-> Str(97)],
                    [role |-> "assistant",
                     content |-> PyStr(PyJoin(DeltaTexts(streams[1].events)))]>>

\* the frames of the text deltas among the events, in order
TextFrames(events) ==
    [k \in 1..Len(DeltaTexts(events)) |-> sse_chunk(DeltaTexts(events)[k])]

VendorFailures == {"vendor_open_fail", "vendor_fail"}

\* C15: the frames of a stream are those of the text deltas among the
\* events received, one each and in their order; other events, deltas
\* without text included, give none; and no event is received after a
\* message_stop.
C15_OneFramePerTextDelta ==
    \A i \in StreamIds :
        /\ streams[i].frames = TextFrames(streams[i].events)
        /\ \A k \in 1..(Len(streams[i].events) - 1) :
               streams[i].events[k].type # "message_stop"

C15_Witness ==
    \E i \in StreamIds :
        /\ Len(streams[i].events) = 2
        /\ streams[i].events[1] = Event("content_block_delta", FALSE, <<>>)
        /\ streams[i].events[2].has_text
        /\ Len(streams[i].frames) = 1

\* C16: when the vendor call fails, at the opening or while it is iterated,
\* the generator is left by an APIError; no frame is yielded or passed on
\* for the failure, so the frames are those of the deltas received before.
C16_VendorFailureRaisesAPIError ==
    [][\A i \in StreamIds :
          (lastOp' \in VendorFailures /\ streams'[i] # streams[i])
             => /\ streams'[i].pc = "failed"
                /\ streams'[i].error.exc = "APIError"
                /\ streams'[i].error.status \in {500, 502}
                /\ streams'[i].frames = streams[i].frames
                /\ streams'[i].sent = streams[i].sent
                /\ streams'[i].frames = TextFrames(streams'[i].events)]_vars

C16_Witness ==
    /\ lastOp = "vendor_fail"
    /\ \E i \in StreamIds :
           /\ streams[i].pc = "failed"
           /\ streams[i].error.code = "STREAMING_ERROR"
           /\ Len(streams[i].sent) = 1

\* C17: a vendor failure before the first frame is sent is answered with
\* status 502, 500 or 503 and a JSON error body.
C17_UpstreamFailureIsJsonError ==
    \A i \in StreamIds :
        (/\ streams[i].pc = "failed"
         /\ streams[i].error.exc = "APIError"
         /\ streams[i].sent = <<>>)
            => /\ ClientSees(streams[i]).status \in {500, 502, 503}
               /\ ClientSees(streams[i]).body = "json error"

NumAssistant(msgs) == Len(SelectSeq(msgs, LAMBDA msg : msg.role = "assistant"))

\* C20: a stream whose generator was closed by a disconnect, or left by a
\* failure, receives no further event; such a step adds no message; and an
\* assistant message is added only by the step in which the vendor's stream
\* ends (message_stop, or no more events).
C20_NoPartialCommit ==
    [][/\ \A i \in StreamIds :
              streams[i].pc \in {"closed", "failed"} => streams'[i] = streams[i]
       /\ \A i \in StreamIds :
              (streams[i].pc # streams'[i].pc /\ streams'[i].pc \in {"closed", "failed"})
                 => /\ added' = added
                    /\ messages' = messages /\ lists' = lists /\ dicts' = dicts
       /\ NumAssistant(added') > NumAssistant(added)
              => \E i \in StreamIds :
                     /\ streams[i].pc \in {"running", "yielded"}
                     /\ streams'[i].pc = "done"
                     /\ \/ lastOp' = "vendor_end"
                        \/ /\ lastOp' = "vendor_event"
                           /\ streams'[i].events[Len(streams'[i].events)].type
                                  = "message_stop"]_vars

C20_Witness ==
    /\ lastOp = "client_disconnect"
    /\ \E i \in StreamIds :
           /\ streams[i].pc = "closed"
           /\ streams[i].assistant_message # <<>>
    /\ NumAssistant(added) = 0
    /\ Len(View) = 1

----------------------------------------------------------------------------
(* Properties of the RateLimiter (specifications SpecLimiter and SpecRate) *)

\* the timestamps of h that are less than period old at time t
Remaining(h, t, period) ==
    SelectSeq(h, LAMBDA call_time : ~(t - call_time >= period))

\* C18: is_allowed(id) at time now drops the timestamps of id that are
\* period or more old, answers true iff fewer than max_calls remain,
\* appends now to them exactly when it answers true, and leaves the
\* histories of the other identifiers as they were.
C18_IsAllowedStep ==
    [][(lastOp' = "is_allowed" /\ nOps' # nOps)
          => LET rem == Remaining(History(calls, ident'), now, limiter.period)
             IN  /\ allowed' = (Len(rem) < limiter.max_calls)
                 /\ calls'[ident'] = IF allowed' THEN Append(rem, now) ELSE rem
                 /\ \A id \in Identifiers \ {ident'} :
                        /\ id \in DOMAIN calls' <=> id \in DOMAIN calls
                        /\ History(calls', id) = History(calls, id)]_vars

C18_Witness ==
    /\ lastOp = "is_allowed"
    /\ ~allowed
    /\ now >= limiter.period
    /\ Len(History(calls, ident)) = limiter.max_calls
    /\ \E id \in Identifiers \ {ident} : History(calls, id) # <<>>

\* the chat requests let through in the 60 seconds up to time t
AdmittedInWindow(t) ==
    Cardinality({k \in 1..Len(admitted) : t - admitted[k] < 60})

\* C19: every chat request is counted under the identifier 'default', and
\* one made when 10 chat requests have been let through in the last 60
\* seconds is answered 429 RATE_LIMIT_EXCEEDED whatever its body is, and
\* changes neither the buffer nor the response streams.
C19_ChatRateLimited ==
    [][/\ (lastOp' = "chat" /\ nReqs' # nReqs) => ident' = "default"
       /\ (lastOp' = "chat" /\ nReqs' # nReqs /\ AdmittedInWindow(now) >= 10)
          => /\ response'.status = 429
             /\ response'.code = "RATE_LIMIT_EXCEEDED"
             /\ messages' = messages /\ lists' = lists /\ dicts' = dicts
             /\ streams' = streams]_vars

C19_Witness ==
    /\ lastOp = "chat"
    /\ response.status = 429
    /\ now = 59
    /\ Len(admitted) = 10
    /\ Len(streams) >= 1

----------------------------------------------------------------------------
(* Concurrent calls of the ConversationManager *)

\* the calls of `order`, made one after the other on a manager m: the
\* manager they leave and, for each get_messages call, what it returned
RECURSIVE SerialRun(_, _, _)
SerialRun(m, order, rets) ==
    IF order = <<>> THEN [mem |-> m, rets |-> rets]
    ELSE LET t  == Head(order)
             th == threads[t]
         IN  CASE th.op = "add_message" ->
                    SerialRun(add_message(m, dicts[th.msg].role, dicts[th.msg].content),
                              Tail(order), rets)
               [] th.op = "get_messages" ->
                    SerialRun(get_messages(m).mem, Tail(order),
                              [rets EXCEPT ![t] = ViewOf(m.lists, m.dicts, m.messages)])
               [] th.op = "clear" ->
                    SerialRun(clear(m), Tail(order), rets)

\* the orders in which the calls made so far can be put
SerialOrders ==
    LET n == Len(threads)
    IN  {[i \in 1..n |-> f[i]] : f \in Permutations(1..n)}

\* the buffer and every returned snapshot are those of the serial order
SerialOutcome(order) ==
    LET r == SerialRun(Fresh(max_context_messages), order,
                       [t \in 1..Len(threads) |-> <<>>])
    IN  /\ View = ViewOf(r.mem.lists, r.mem.dicts, r.mem.messages)
        /\ \A t \in 1..Len(threads) :
              threads[t].op = "get_messages" =>
                  ViewOf(lists, dicts, threads[t].ret) = r.rets[t]

ThreadsDone == \A t \in 1..Len(threads) : threads[t].pc = "done"

\* C21: whenever the concurrent add_message, get_messages and clear calls
\* have all returned, the buffer and every returned snapshot equal those of
\* some serial order of the calls.
C21_Serializable ==
    ThreadsDone => \E order \in SerialOrders : SerialOutcome(order)

----------------------------------------------------------------------------
(* Trimming and the user message *)

HasUser(msgs) == \E k \in 1..Len(msgs) : msgs[k].role = "user"

\* C23: after an add_message that triggers a trim, the buffer holds at least
\* one message with role 'user', given that a user message had been added.
C23_TrimKeepsUser ==
    [][(/\ lastOp' = "add_message"
        /\ Len(View) + 1 > max_context_messages
        /\ HasUser(added'))
           => HasUser(View')]_vars

----------------------------------------------------------------------------
(* The sliding window of the RateLimiter (specification SpecLimiter) *)

\* the calls of id let through with a timestamp in (t - period, t]
AdmittedCalls(id, t) ==
    {k \in 1..Len(admitted) :
        /\ admitted[k].identifier = id
        /\ t - limiter.period < admitted[k].time
        /\ admitted[k].time <= t}

\* the instants at which a window (t - period, t] can be fullest: the
\* timestamps of the calls let through, and now.  The window that ends at
\* any other instant t holds no call that the window ending at the last
\* timestamp up to t does not hold.
Instants == {admitted[k].time : k \in 1..Len(admitted)} \cup {now}

\* C24: for every identifier and every instant t, at most max_calls calls
\* were let through with a timestamp in (t - period, t], and the stored
\* history of an identifier never holds more than max_calls timestamps.
C24_SlidingWindowBound ==
    \A id \in Identifiers :
        /\ Len(History(calls, id)) <= limiter.max_calls
        /\ \A t \in Instants : Cardinality(AdmittedCalls(id, t)) <= limiter.max_calls

C24_Witness ==
    /\ lastOp = "is_allowed"
    /\ allowed
    /\ limiter.max_calls = 2
    /\ limiter.period = 2
    /\ Len(History(calls, ident)) = 1
    /\ Cardinality(AdmittedCalls(ident, now)) = 1
    /\ \E t \in Instants : Cardinality(AdmittedCalls(ident, t)) = 2
    /\ Cardinality({k \in 1..Len(admitted) : admitted[k].identifier = ident}) = 3

\* C25: a denied is_allowed call records no timestamp, and a call made at or
\* after the oldest retained timestamp plus period (or with no timestamp
\* retained) is let through, whatever number of calls were denied before.
C25_DeniedDoNotExtend ==
    [][(lastOp' = "is_allowed" /\ nOps' # nOps)
          => LET h == History(calls, ident')
             IN  /\ ~allowed' =>
                        calls'[ident'] = Remaining(h, now, limiter.period)
                 /\ (h = <<>> \/ now >= h[1] + limiter.period) => allowed']_vars

\* the caller was denied twice and then, the clock having advanced by the
\* period, let through
C25_Witness ==
    /\ lastOp = "is_allowed"
    /\ allowed
    /\ DOMAIN calls = {ident}
    /\ nOps >= Len(admitted) + 2
    /\ Len(admitted) = limiter.max_calls + 1
    /\ now = admitted[1].time + limiter.period

----------------------------------------------------------------------------
(* The steps of an accepted chat request (specification SpecReply) *)

\* the message dicts created by the step
NewDicts == SubSeq(dicts', Len(dicts) + 1, Len(dicts'))

\* the vendor's stream of stream i ends in the step: it is exhausted, or its
\* message_stop event arrives
VendorEnds(i) ==
    /\ streams[i].pc \in {"running", "yielded"}
    /\ streams'[i] # streams[i]
    /\ \/ lastOp' = "vendor_end"
       \/ /\ lastOp' = "vendor_event"
          /\ streams'[i].events[Len(streams'[i].events)].type = "message_stop"

\* C22: an accepted chat request validates, adds the user message, takes a
\* snapshot (a list of its own), and creates a stream that has not called
\* the vendor; the vendor is called at the first pull with that snapshot,
\* which no later step changes; frames come after the call; and the step in
\* which the vendor's stream ends makes exactly one add, of an assistant
\* message, no other step making one.
C22_RequestOrder ==
    [][/\ (lastOp' = "chat" /\ Len(streams') > Len(streams))
            => LET st == streams'[Len(streams')]
               IN  /\ response'.status = 200
                   /\ NewDicts = <<[role |-> "user", content |-> Str(97)]>>
                   /\ lists'[messages'][Len(lists'[messages'])] = Len(dicts')
                   /\ st.messages > Len(lists)
                   /\ st.messages # messages'
                   /\ ViewOf(lists', dicts', st.messages) = View'
                   /\ st.pc = "created" /\ ~st.called /\ st.frames = <<>>
       /\ \A i \in StreamIds :
            /\ ViewOf(lists', dicts', streams[i].messages)
                   = ViewOf(lists, dicts, streams[i].messages)
            /\ (streams'[i].called /\ ~streams[i].called)
                   => /\ lastOp' \in {"vendor_open", "vendor_open_fail"}
                      /\ streams'[i].request = ViewOf(lists, dicts, streams[i].messages)
                      /\ streams'[i].request
                             = <<[role |-> "user", content |-> Str(97)]>>
            /\ streams'[i].frames # <<>> => streams'[i].called
            /\ VendorEnds(i)
                   => /\ Len(NewDicts) = 1
                      /\ NewDicts[1].role = "assistant"
                      /\ lists'[messages'][Len(lists'[messages'])] = Len(dicts')
       /\ (\A i \in StreamIds : ~VendorEnds(i))
            => \A k \in 1..Len(NewDicts) : NewDicts[k].role # "assistant"]_vars

----------------------------------------------------------------------------
(* Several chat requests (specification SpecSession) *)

\* user, assistant, user, ...
Alternating(msgs) ==
    \A k \in 1..Len(msgs) :
        msgs[k].role = IF k % 2 = 1 THEN "user" ELSE "assistant"

\* stream i calls the vendor in the step
VendorCalled(i) == streams'[i].called /\ ~streams[i].called

\* C26: when the requests so far were handled one at a time and every
\* stream completed (the messages added alternate, user first), and N >= 1,
\* the message list a request passes to the vendor starts with a user
\* message and alternates user/assistant.
C26_VendorListAlternates ==
    [][\A i \in StreamIds :
          (/\ VendorCalled(i)
           /\ max_context_messages >= 1
           /\ Alternating(added))
              => Alternating(streams'[i].request)]_vars

\* the step is an accepted chat request
ChatAccepted == lastOp' = "chat" /\ Len(streams') > Len(streams)

\* the user message of the accepted requests
UserMessage == [role |-> "user", content |-> Str(97)]

\* the stream fails or is cancelled in the step
StreamFails(i) ==
    /\ streams'[i].pc # streams[i].pc
    /\ streams'[i].pc \in {"failed", "closed"}

\* the request is a retry: the last request's stream has failed or was
\* cancelled, and its user message is the last message added
IsRetry ==
    /\ ChatAccepted
    /\ streams # <<>>
    /\ streams[Len(streams)].pc \in {"failed", "closed"}
    /\ added # <<>>
    /\ added[Len(added)] = UserMessage

TwoUsersAtEnd(msgs) ==
    /\ Len(msgs) >= 2
    /\ msgs[Len(msgs) - 1] = UserMessage
    /\ msgs[Len(msgs)] = UserMessage

\* the claim as stated, for every N: an accepted request leaves the
\* pre-request buffer with the user message appended, trimmed to N; a
\* failed or cancelled stream changes nothing and adds no message; a retry
\* leaves two consecutive user messages in the buffer and in the list of
\* the next vendor call.
C27_Original ==
    [][/\ ChatAccepted
            => View' = LastN(View \o <<UserMessage>>,
                             Min(max_context_messages, Len(View) + 1))
       /\ \A i \in StreamIds :
            /\ StreamFails(i) => (View' = View /\ dicts' = dicts)
            /\ VendorCalled(i)
                   => streams'[i].request = ViewOf(lists, dicts, streams[i].messages)
       /\ IsRetry
            => /\ TwoUsersAtEnd(View')
               /\ TwoUsersAtEnd(ViewOf(lists', dicts', streams'[Len(streams')].messages))]_vars

\* C27: for N >= 1 an accepted request leaves the pre-request buffer with
\* the user message appended, trimmed to N (untrimmed for N = 0, see C1);
\* for every N a failed or cancelled stream changes nothing and adds no
\* message, so the user message stays; for N >= 2 a retry leaves two
\* consecutive user messages in the buffer and in the list of the next
\* vendor call.
C27_NoRollback ==
    [][/\ (ChatAccepted /\ max_context_messages >= 1)
            => View' = LastN(View \o <<UserMessage>>,
                             Min(max_context_messages, Len(View) + 1))
       /\ (ChatAccepted /\ max_context_messages = 0)
            => View' = View \o <<UserMessage>>
       /\ \A i \in StreamIds :
            /\ StreamFails(i) => (View' = View /\ dicts' = dicts)
            /\ VendorCalled(i)
                   => streams'[i].request = ViewOf(lists, dicts, streams[i].messages)
            /\ ViewOf(lists', dicts', streams[i].messages)
                   = ViewOf(lists, dicts, streams[i].messages)
       /\ (IsRetry /\ max_context_messages >= 2)
            => /\ TwoUsersAtEnd(View')
               /\ TwoUsersAtEnd(ViewOf(lists', dicts', streams'[Len(streams')].messages))]_vars

\* the retry of a request whose stream was cancelled after a frame has
\* called the vendor with two user messages and no assistant message
C27_Witness ==
    /\ lastOp = "vendor_open"
    /\ max_context_messages = 2
    /\ Len(streams) = 2
    /\ streams[1].pc = "closed"
    /\ streams[1].sent # <<>>
    /\ streams[2].request = <<UserMessage, UserMessage>>
    /\ View = <<UserMessage, UserMessage>>

----------------------------------------------------------------------------
(* Frames the route cannot read (specification SpecReply) *)

\* the frame's payload is not a JSON object: invalid JSON, or a number, a
\* string, a list, true, false or null
NotAnObject(frame) ==
    \/ ~JsonLoads(Payload(frame)).ok
    \/ JsonLoads(Payload(frame)).t # "dict"

\* the frame's payload is a JSON object with a string under 'text'
TextObject(frame) ==
    /\ JsonLoads(Payload(frame)).ok
    /\ JsonLoads(Payload(frame)).t = "dict"
    /\ JsonLoads(Payload(frame)).text.t = "str"

\* C28: every frame the relay yields is passed on unchanged and in order; a
\* frame whose payload is not a JSON object is passed on too, adds nothing
\* to the text collected, and the stream goes on; and when the vendor's
\* stream ends after frames of these two kinds the assistant message is
\* added.
C28_UnreadableFramesSkipped ==
    [][\A i \in StreamIds :
          /\ streams'[i].sent = streams'[i].frames
          /\ (/\ lastOp' = "vendor_event"
              /\ Len(streams'[i].frames) = Len(streams[i].frames) + 1
              /\ NotAnObject(streams'[i].frames[Len(streams'[i].frames)]))
                 => /\ streams'[i].pc = "yielded"
                    /\ streams'[i].assistant_message = streams[i].assistant_message
          /\ (/\ VendorEnds(i)
              /\ \A k \in 1..Len(streams[i].frames) :
                     NotAnObject(streams[i].frames[k]) \/ TextObject(streams[i].frames[k]))
                 => /\ streams'[i].pc = "done"
                    /\ Len(NewDicts) = 1
                    /\ NewDicts[1].role = "assistant"]_vars

----------------------------------------------------------------------------
(* POST /api/chat/clear and a stream that is still open (SpecReply) *)

\* C29: once POST /api/chat/clear has responded, and as long as no chat
\* request has been accepted since, the buffer is empty, also when a stream
\* that started before the clear ends after it.
C29_ClearedStaysEmpty ==
    (cleared /\ ~HasUser(added)) => View = <<>>

----------------------------------------------------------------------------
(* Chat requests in flight together (specification SpecSession) *)

Last(s) == s[Len(s)]

\* stream i adds its assistant message in the step
Commits(i) == streams[i].pc # "done" /\ streams'[i].pc = "done"

\* another request was accepted while request i was in flight
Overlapped(i) ==
    \E j \in StreamIds \ {i} :
        j > i \/ streams[j].pc \notin {"done", "failed", "closed"}

\* C30: for N >= 1, the message list a request takes, and passes to the
\* vendor, ends with the request's own user message, and the assistant
\* message of a request that overlapped another one is put right after the
\* user message it answers.
C30_OwnMessages ==
    [][max_context_messages >= 1
          => /\ ChatAccepted
                  => Last(lists'[streams'[Len(streams')].messages]) = Len(dicts')
             /\ \A i \in StreamIds :
                  /\ VendorCalled(i)
                        => streams'[i].request
                              = ViewOf(lists, dicts, streams[i].messages)
                  /\ (Commits(i) /\ Overlapped(i))
                        => /\ Len(lists'[messages']) >= 2
                           /\ Last(lists'[messages']) = Len(dicts')
                           /\ lists'[messages'][Len(lists'[messages']) - 1]
                                  = Last(lists[streams[i].messages])]_vars

====
